---------------------------- MODULE Spec2Model ----------------------------
(***************************************************************************)
(* A model of the bug-bounty automator: the session loop of main.py, the   *)
(* decision client of ai_interface.py, the process runner of               *)
(* command_executor.py and the methodology source of                       *)
(* methodology_parser.py.                                                  *)
(*                                                                         *)
(* Python str values are TLA+ strings; they are taken apart with Len,      *)
(* SubSeq and \o.  A backquote cannot be written in a TLA+ string, so the  *)
(* character "^" stands for it in every text of this module.               *)
(***************************************************************************)
EXTENDS Integers, Sequences, FiniteSets, TLC

(***************************************************************************)
(* Python str operations.                                                  *)
(***************************************************************************)

\* s[i] (1-based), "" outside the string.
Ch(s, i) == IF i >= 1 /\ i <= Len(s) THEN SubSeq(s, i, i) ELSE ""

\* str.isspace for one character.
IsSpace(c) == c \in {" ", "\n", "\t"}

\* s[i:] (1-based i).
From(s, i) == SubSeq(s, i, Len(s))

\* `p in s` for strings.
Contains(s, p) ==
    \E i \in 1..(Len(s) - Len(p) + 1) : SubSeq(s, i, i + Len(p) - 1) = p

\* s.startswith(p).
StartsWith(s, p) == Len(p) <= Len(s) /\ SubSeq(s, 1, Len(p)) = p

\* The first index >= i where p occurs in s, 0 when there is none.
RECURSIVE IndexFrom(_, _, _)
IndexFrom(s, p, i) ==
    IF i + Len(p) - 1 > Len(s) THEN 0
    ELSE IF SubSeq(s, i, i + Len(p) - 1) = p THEN i
    ELSE IndexFrom(s, p, i + 1)

\* The last index where the character c occurs in s, 0 when there is none.
RECURSIVE LastIndex(_, _, _)
LastIndex(s, c, i) ==
    IF i < 1 THEN 0
    ELSE IF Ch(s, i) = c THEN i
    ELSE LastIndex(s, c, i - 1)

\* The first index >= i of s that holds no whitespace (Len(s)+1 at the end).
RECURSIVE SkipWs(_, _)
SkipWs(s, i) == IF IsSpace(Ch(s, i)) THEN SkipWs(s, i + 1) ELSE i

\* The last index <= i of s that holds no whitespace (0 when there is none).
RECURSIVE SkipWsBack(_, _)
SkipWsBack(s, i) == IF IsSpace(Ch(s, i)) THEN SkipWsBack(s, i - 1) ELSE i

\* s.strip().
Strip(s) == SubSeq(s, SkipWs(s, 1), SkipWsBack(s, Len(s)))

\* c.lower() for one character.
LowerChar(c) ==
    CASE c = "A" -> "a" [] c = "B" -> "b" [] c = "C" -> "c" [] c = "D" -> "d"
      [] c = "E" -> "e" [] c = "F" -> "f" [] c = "G" -> "g" [] c = "H" -> "h"
      [] c = "I" -> "i" [] c = "J" -> "j" [] c = "K" -> "k" [] c = "L" -> "l"
      [] c = "M" -> "m" [] c = "N" -> "n" [] c = "O" -> "o" [] c = "P" -> "p"
      [] c = "Q" -> "q" [] c = "R" -> "r" [] c = "S" -> "s" [] c = "T" -> "t"
      [] c = "U" -> "u" [] c = "V" -> "v" [] c = "W" -> "w" [] c = "X" -> "x"
      [] c = "Y" -> "y" [] c = "Z" -> "z" [] OTHER -> c

\* s.lower().
RECURSIVE Lower(_)
Lower(s) == IF s = "" THEN "" ELSE LowerChar(SubSeq(s, 1, 1)) \o Lower(From(s, 2))

\* s.split(sep) for a one-character separator: a tuple of strings.
RECURSIVE Split(_, _)
Split(s, sep) ==
    LET i == IndexFrom(s, sep, 1)
    IN  IF i = 0 THEN <<s>>
        ELSE <<SubSeq(s, 1, i - 1)>> \o Split(From(s, i + 1), sep)

\* str(n) for 0 <= n <= 999.
Digit(d) == SubSeq("0123456789", d + 1, d + 1)
RECURSIVE IntToStr(_)
IntToStr(n) == IF n < 10 THEN Digit(n) ELSE IntToStr(n \div 10) \o Digit(n % 10)

(***************************************************************************)
(* JSON values as Python's json.loads builds them.  Every value carries    *)
(* its Python type in t.                                                   *)
(***************************************************************************)
JStr(s) == [t |-> "str", v |-> s]
JBool(b) == [t |-> "bool", v |-> b]
JNum(n) == [t |-> "int", v |-> n]
JNone == [t |-> "NoneType", v |-> "None"]
JList(seq) == [t |-> "list", v |-> seq]
JDict(f) == [t |-> "dict", v |-> f]

\* bool(x): Python truthiness.
Truthy(x) ==
    CASE x.t = "NoneType" -> FALSE
      [] x.t = "bool" -> x.v
      [] x.t = "int" -> x.v # 0
      [] x.t = "str" -> x.v # ""
      [] x.t = "list" -> Len(x.v) > 0
      [] x.t = "dict" -> DOMAIN x.v # {}

\* d.get(k, default) for a dict value d.
Get(d, k, default) == IF k \in DOMAIN d.v THEN d.v[k] ELSE default

\* k in d.
Has(d, k) == k \in DOMAIN d.v

\* dict(pairs): a later pair with the same key wins.
ToDict(pairs) ==
    [k \in {pairs[i][1] : i \in DOMAIN pairs} |->
        LET last == CHOOSE i \in DOMAIN pairs :
                        /\ pairs[i][1] = k
                        /\ \A j \in DOMAIN pairs : pairs[j][1] = k => j <= i
        IN  pairs[last][2]]

(***************************************************************************)
(* json.loads: a recursive-descent reading of a JSON text.  The texts of   *)
(* this module hold objects, arrays, strings without escapes, the literals *)
(* true, false and null, and non-negative integers.                        *)
(***************************************************************************)
ParseFail == [ok |-> FALSE, val |-> JNone, pos |-> 0]
ParseOk(v, p) == [ok |-> TRUE, val |-> v, pos |-> p]

\* Whether p occurs in s at index i.
At(s, i, p) == i >= 1 /\ i + Len(p) - 1 <= Len(s) /\ SubSeq(s, i, i + Len(p) - 1) = p

IsDigit(c) == c # "" /\ Contains("0123456789", c)
DigitVal(c) == IndexFrom("0123456789", c, 1) - 1

\* An integer literal starting at i.
RECURSIVE ScanInt(_, _, _)
ScanInt(s, i, acc) ==
    IF IsDigit(Ch(s, i)) THEN ScanInt(s, i + 1, acc * 10 + DigitVal(Ch(s, i)))
    ELSE ParseOk(JNum(acc), i)

\* The string literal whose opening quote is at start - 1: its text (a TLA+
\* string) and the index after its closing quote.  A raw control character
\* inside a string is a JSONDecodeError.
RECURSIVE ScanStr(_, _, _)
ScanStr(s, i, start) ==
    IF i > Len(s) THEN ParseFail
    ELSE IF Ch(s, i) = "\"" THEN ParseOk(SubSeq(s, start, i - 1), i + 1)
    ELSE IF Ch(s, i) \in {"\n", "\t"} THEN ParseFail
    ELSE ScanStr(s, i + 1, start)

RECURSIVE ParseValue(_, _)
RECURSIVE ParseMembers(_, _, _)
RECURSIVE ParseElements(_, _, _)

\* One JSON value starting at or after i0 (whitespace skipped).
ParseValue(s, i0) ==
    LET i == SkipWs(s, i0)
        c == Ch(s, i)
    IN  CASE c = "\"" ->
               LET r == ScanStr(s, i + 1, i + 1)
               IN  IF r.ok THEN ParseOk(JStr(r.val), r.pos) ELSE ParseFail
          [] c = "{" ->
               LET j == SkipWs(s, i + 1)
               IN  IF Ch(s, j) = "}" THEN ParseOk(JDict(<<>>), j + 1)
                   ELSE ParseMembers(s, j, <<>>)
          [] c = "[" ->
               LET j == SkipWs(s, i + 1)
               IN  IF Ch(s, j) = "]" THEN ParseOk(JList(<<>>), j + 1)
                   ELSE ParseElements(s, j, <<>>)
          [] IsDigit(c) -> ScanInt(s, i, 0)
          [] At(s, i, "true") -> ParseOk(JBool(TRUE), i + 4)
          [] At(s, i, "false") -> ParseOk(JBool(FALSE), i + 5)
          [] At(s, i, "null") -> ParseOk(JNone, i + 4)
          [] OTHER -> ParseFail

\* The members of an object after its "{", acc the pairs read so far.
ParseMembers(s, i0, acc) ==
    LET i == SkipWs(s, i0)
    IN  IF Ch(s, i) # "\"" THEN ParseFail
        ELSE LET k == ScanStr(s, i + 1, i + 1)
             IN  IF ~k.ok THEN ParseFail
                 ELSE LET j == SkipWs(s, k.pos)
                      IN  IF Ch(s, j) # ":" THEN ParseFail
                          ELSE LET v == ParseValue(s, j + 1)
                               IN  IF ~v.ok THEN ParseFail
                                   ELSE LET e == SkipWs(s, v.pos)
                                            acc2 == Append(acc, <<k.val, v.val>>)
                                        IN  IF Ch(s, e) = "," THEN ParseMembers(s, e + 1, acc2)
                                            ELSE IF Ch(s, e) = "}"
                                                 THEN ParseOk(JDict(ToDict(acc2)), e + 1)
                                            ELSE ParseFail

\* The elements of an array after its "[", acc the values read so far.
ParseElements(s, i0, acc) ==
    LET v == ParseValue(s, i0)
    IN  IF ~v.ok THEN ParseFail
        ELSE LET e == SkipWs(s, v.pos)
                 acc2 == Append(acc, v.val)
             IN  IF Ch(s, e) = "," THEN ParseElements(s, e + 1, acc2)
                 ELSE IF Ch(s, e) = "]" THEN ParseOk(JList(acc2), e + 1)
                 ELSE ParseFail

\* json.loads(s): ok is FALSE where Python raises JSONDecodeError.
JsonLoads(s) ==
    LET r == ParseValue(s, 1)
    IN  IF r.ok /\ SkipWs(s, r.pos) = Len(s) + 1
        THEN [ok |-> TRUE, val |-> r.val]
        ELSE [ok |-> FALSE, val |-> JNone]

(***************************************************************************)
(* The two regular expressions of generate_command.                        *)
(***************************************************************************)
\* Three backquotes.
Fence == "^^^"

NoMatch == [found |-> FALSE, group |-> ""]

\* The least e >= i with s[e] = "}" followed by \s* and a fence; 0 if none.
RECURSIVE LazyClose(_, _)
LazyClose(s, i) ==
    IF i > Len(s) THEN 0
    ELSE IF Ch(s, i) = "}" /\ At(s, SkipWs(s, i + 1), Fence) THEN i
    ELSE LazyClose(s, i + 1)

\* The match of  ```(?:json)?\s*(\{.*?\})\s*```  that starts at index p.
FenceMatchAt(s, p) ==
    LET a == p + 3
        b == IF At(s, a, "json") THEN a + 4 ELSE a
        c == SkipWs(s, b)
        e == LazyClose(s, c + 1)
    IN  IF At(s, p, Fence) /\ Ch(s, c) = "{" /\ e # 0
        THEN [found |-> TRUE, group |-> SubSeq(s, c, e)]
        ELSE NoMatch

\* re.search(r'```(?:json)?\s*(\{.*?\})\s*```', s, re.DOTALL): the leftmost match.
RECURSIVE FenceSearch(_, _)
FenceSearch(s, p0) ==
    LET p == IndexFrom(s, Fence, p0)
    IN  IF p = 0 THEN NoMatch
        ELSE IF FenceMatchAt(s, p).found THEN FenceMatchAt(s, p)
        ELSE FenceSearch(s, p + 1)

\* re.search(r'\{.*\}', s, re.DOTALL): from the first "{" to the last "}".
BraceSearch(s) ==
    LET a == IndexFrom(s, "{", 1)
        b == LastIndex(s, "}", Len(s))
    IN  IF a # 0 /\ b > a THEN [found |-> TRUE, group |-> SubSeq(s, a, b)]
        ELSE NoMatch

(***************************************************************************)
(* ai_interface.py: the decision client.                                   *)
(***************************************************************************)
\* generate_command's default retry_count.
retry_count == 3

\* A validation that does not ask for the command field of a stopping Decision.
ValidateResponse_NoCommandCheck(result) ==
    IF result.t # "dict" THEN FALSE
    ELSE IF Truthy(Get(result, "stop", JBool(FALSE))) THEN TRUE
    ELSE IF ~Has(result, "command") THEN FALSE
    ELSE IF ~Truthy(result.v["command"]) \/ result.v["command"].t # "str" THEN FALSE
    ELSE TRUE

\* _validate_response(result).
ValidateResponse(result) ==
    IF result.t # "dict" THEN FALSE
    ELSE IF ~Has(result, "command") THEN FALSE
    ELSE IF Truthy(Get(result, "stop", JBool(FALSE))) THEN TRUE
    ELSE IF ~Truthy(result.v["command"]) \/ result.v["command"].t # "str" THEN FALSE
    ELSE TRUE

\* _error_response(error_msg).
ErrorResponse(error_msg) ==
    JDict([command |-> JStr(""), next_phase |-> JStr(""),
           stop |-> JBool(TRUE), error |-> JStr(error_msg)])

\* str(e) of the AttributeError of None.strip() (message.content is None).
NoneStripMsg == "'NoneType' object has no attribute 'strip'"

\* str(e) of a json.JSONDecodeError; the position it names is left out.
JSONDecodeMsg == "Expecting value"

\* What one pass of the retry loop's body does with the provider's response:
\* "return" a Decision, "continue" (line 35), "raise" into the outer except
\* (line 57), or fall off the end of the inner except ("unparsed", line 53).
AttemptOutcome(resp) ==
    IF resp.kind = "raise" THEN [kind |-> "raise", msg |-> resp.msg]
    ELSE IF resp.kind = "none" THEN [kind |-> "raise", msg |-> NoneStripMsg]
    ELSE
      LET content == Strip(resp.text)
          direct == JsonLoads(content)
          m1 == FenceSearch(content, 1)
          r1 == JsonLoads(m1.group)
          m2 == BraceSearch(content)
          r2 == JsonLoads(m2.group)
      IN  IF direct.ok
          THEN IF ValidateResponse(direct.val)
               THEN [kind |-> "return", result |-> direct.val]
               ELSE [kind |-> "continue"]
          ELSE IF m1.found /\ ~r1.ok THEN [kind |-> "raise", msg |-> JSONDecodeMsg]
          ELSE IF m1.found /\ ValidateResponse(r1.val)
               THEN [kind |-> "return", result |-> r1.val]
          ELSE IF m2.found /\ ~r2.ok THEN [kind |-> "raise", msg |-> JSONDecodeMsg]
          ELSE IF m2.found /\ ValidateResponse(r2.val)
               THEN [kind |-> "return", result |-> r2.val]
          ELSE [kind |-> "unparsed"]

\* A retry loop that gives up at the first failed attempt.
GenerateStep_NoRetry(att, resp) ==
    LET out == AttemptOutcome(resp)
    IN  CASE out.kind = "return" -> [done |-> TRUE, result |-> out.result]
          [] out.kind = "continue" ->
               [done |-> TRUE, result |-> ErrorResponse("Max retries exceeded")]
          [] out.kind = "unparsed" ->
               [done |-> TRUE, result |-> ErrorResponse("Invalid JSON format")]
          [] OTHER -> [done |-> TRUE, result |-> ErrorResponse(out.msg)]

\* A retry loop whose last failed request reports "Max retries exceeded".
GenerateStep_MaxRetries(att, resp) ==
    LET out == AttemptOutcome(resp)
        last == att = retry_count - 1
    IN  CASE out.kind = "return" -> [done |-> TRUE, result |-> out.result]
          [] out.kind = "unparsed" ->
               IF last THEN [done |-> TRUE, result |-> ErrorResponse("Invalid JSON format")]
               ELSE [done |-> FALSE, result |-> JNone]
          [] OTHER ->
               IF last THEN [done |-> TRUE, result |-> ErrorResponse("Max retries exceeded")]
               ELSE [done |-> FALSE, result |-> JNone]

\* The pass numbered attempt (from 0) of the retry loop, with what follows it
\* up to the next request: done with the Decision returned, or not done.
GenerateStep(att, resp) ==
    LET out == AttemptOutcome(resp)
        last == att = retry_count - 1
    IN  CASE out.kind = "return" -> [done |-> TRUE, result |-> out.result]
          [] out.kind = "continue" ->
               IF att + 1 < retry_count THEN [done |-> FALSE, result |-> JNone]
               ELSE [done |-> TRUE, result |-> ErrorResponse("Max retries exceeded")]
          [] out.kind = "unparsed" ->
               IF last THEN [done |-> TRUE, result |-> ErrorResponse("Invalid JSON format")]
               ELSE [done |-> FALSE, result |-> JNone]
          [] out.kind = "raise" ->
               IF last THEN [done |-> TRUE, result |-> ErrorResponse(out.msg)]
               ELSE [done |-> FALSE, result |-> JNone]

\* The default Analysis of analyze_output's except branch.
DefaultAnalysis ==
    JDict([findings |-> JList(<<>>), vulnerabilities |-> JList(<<>>),
           next_actions |-> JList(<<JStr("Continue with next phase")>>),
           risk_level |-> JStr("unknown"), summary |-> JStr("Analysis unavailable")])

\* An analyze_output whose except branch returns nothing.
AnalyzeOutput_NoneOnFailure(resp) ==
    IF resp.kind # "content" THEN JNone
    ELSE LET r == JsonLoads(Strip(resp.text))
         IN  IF r.ok THEN r.val ELSE JNone

\* analyze_output for the provider's response: json.loads of the stripped
\* content, or the default on any exception.
AnalyzeOutput(resp) ==
    IF resp.kind # "content" THEN DefaultAnalysis
    ELSE LET r == JsonLoads(Strip(resp.text))
         IN  IF r.ok THEN r.val ELSE DefaultAnalysis

(***************************************************************************)
(* command_executor.py: the process runner.                                *)
(***************************************************************************)
\* CommandExecutor's default timeout, in seconds.
timeout == 600

\* _is_safe_command's dangerous_patterns.
DangerousPatterns ==
    <<"rm -rf /", ":(){ :|:& };:", "dd if=/dev/zero", "mkfs.", "> /dev/sda",
      "wget http://", "curl http://", "nc -e", "/bin/bash -i", "/bin/sh -i">>

\* A safety check that compares the command as it is written.
IsSafeCommand_CaseSensitive(cmd) ==
    \A i \in DOMAIN DangerousPatterns : ~Contains(cmd, DangerousPatterns[i])

\* _is_safe_command(command).
IsSafeCommand(cmd) ==
    LET command_lower == Lower(cmd)
    IN  \A i \in DOMAIN DangerousPatterns :
            ~Contains(command_lower, Lower(DangerousPatterns[i]))

\* The three messages execute returns instead of a command's output.
BlockedMsg(cmd) == "Command blocked for safety: " \o cmd
TimedOutMsg == "Command timed out after " \o IntToStr(timeout) \o " seconds"

\* An error result that is the exception's message alone.
ExecErrorMsg_Bare(e) == e

\* Line 73: the result for an exception e.
ExecErrorMsg(e) == "Command execution error: " \o e

\* An output processing that returns an empty output as it is.
ProcessOutput_NoMarker(rc, stdout, stderr) ==
    IF rc = 0 THEN Strip(stdout)
    ELSE IF Strip(stdout) # ""
         THEN "STDOUT:\n" \o Strip(stdout) \o "\n\nSTDERR:\n" \o Strip(stderr)
         ELSE Strip(stderr)

\* Lines 57-70 of execute: the output for a process that ended with return
\* code rc.  stdout and stderr are the decoded streams.
ProcessOutput(rc, stdout, stderr) ==
    LET stdout_str == Strip(stdout)
        stderr_str == Strip(stderr)
        out == IF rc = 0 THEN stdout_str
               ELSE IF stdout_str # ""
                    THEN "STDOUT:\n" \o stdout_str \o "\n\nSTDERR:\n" \o stderr_str
                    ELSE stderr_str
    IN  IF Strip(out) = "" THEN "[No output. Exit code: " \o IntToStr(rc) \o "]"
        ELSE out

(***************************************************************************)
(* main.py: the helpers of BugBountyAutomator.                             *)
(***************************************************************************)
\* _check_command_success's failure_indicators.
FailureIndicators ==
    <<"command not found", "no such file", "permission denied", "error:",
      "failed to", "[no output. exit code:", "usage:">>

\* _check_command_success(output).
CheckCommandSuccess(out) ==
    IF out = "" \/ Strip(out) = "" THEN FALSE
    ELSE LET output_lower == Lower(out)
         IN  \A i \in DOMAIN FailureIndicators :
                 ~Contains(output_lower, FailureIndicators[i])

\* The characters of a str, each a str value.
RECURSIVE Chars(_)
Chars(s) == IF s = "" THEN <<>> ELSE <<JStr(SubSeq(s, 1, 1))>> \o Chars(From(s, 2))

\* The keys of a dict, each a str value (the texts of this module put no
\* dict where the code iterates, so the order is never observed).
RECURSIVE Keys(_)
Keys(S) ==
    IF S = {} THEN <<>>
    ELSE LET k == CHOOSE x \in S : TRUE IN <<JStr(k)>> \o Keys(S \ {k})

\* Whether `for x in v` works, and what it yields.
Iterable(x) == x.t \in {"list", "str", "dict"}
Items(x) ==
    CASE x.t = "list" -> x.v
      [] x.t = "str" -> Chars(x.v)
      [] x.t = "dict" -> Keys(DOMAIN x.v)

\* Whether x is in the list acc.
InList(acc, x) == \E i \in DOMAIN acc : acc[i] = x

\* A merge that appends every item.
AppendNew_NoDedupe(acc, items) == acc \o items

\* The loop of lines 274-276: append each item not yet in acc.
RECURSIVE AppendNew(_, _)
AppendNew(acc, items) ==
    IF Len(items) = 0 THEN acc
    ELSE AppendNew(IF InList(acc, Head(items)) THEN acc ELSE Append(acc, Head(items)),
                   Tail(items))

\* The loop of lines 281-284: a line that starts with "http" and is not in
\* the list is appended stripped.
RECURSIVE AddLiveHosts(_, _)
AddLiveHosts(acc, lines) ==
    IF Len(lines) = 0 THEN acc
    ELSE AddLiveHosts(IF StartsWith(Head(lines), "http") /\ ~InList(acc, Head(lines))
                      THEN Append(acc, Strip(Head(lines)))
                      ELSE acc,
                      Tail(lines))

\* The loop of lines 289-293: a line with a dot is appended stripped when
\* its stripped text is not in the list.
RECURSIVE AddSubdomains(_, _)
AddSubdomains(acc, lines) ==
    IF Len(lines) = 0 THEN acc
    ELSE AddSubdomains(IF /\ Contains(Head(lines), ".")
                          /\ Len(Strip(Head(lines))) > 0
                          /\ ~InList(acc, Strip(Head(lines)))
                       THEN Append(acc, Strip(Head(lines)))
                       ELSE acc,
                       Tail(lines))

\* _update_findings raises where it iterates a value that is not iterable.
UpdateFindingsRaises(an) ==
    ~Iterable(Get(an, "vulnerabilities", JList(<<>>)))

\* _update_findings(analysis, output) on the findings f.
UpdateFindings(f, an, out) ==
    [vulnerabilities |->
        AppendNew(f.vulnerabilities, Items(Get(an, "vulnerabilities", JList(<<>>)))),
     live_hosts |->
        IF Contains(Lower(out), "http")
        THEN AddLiveHosts(f.live_hosts, Split(out, "\n"))
        ELSE f.live_hosts,
     subdomains |->
        IF Contains(Lower(out), "subdomain") \/ Contains(out, ".com")
        THEN AddSubdomains(f.subdomains, Split(out, "\n"))
        ELSE f.subdomains]

\* Whether `x[:n]` and the loop over it work for a value the code found truthy.
Sliceable(x) == x.t \in {"list", "str"}

\* _display_analysis raises: analysis has no .get, risk_level has no .upper,
\* or a truthy findings, vulnerabilities or next_actions cannot be sliced.
DisplayAnalysisRaises(an) ==
    \/ an.t # "dict"
    \/ Get(an, "risk_level", JStr("unknown")).t # "str"
    \/ \E k \in {"findings", "vulnerabilities", "next_actions"} :
          LET x == Get(an, k, JList(<<>>)) IN Truthy(x) /\ ~Sliceable(x)

\* Config.max_history_lines.
max_history_lines == 10

\* _build_prompt raises where ", ".join(analysis.get("findings", [])[:3])
\* does, for one of the recent history entries.
BuildPromptRaises(hist) ==
    \E i \in DOMAIN hist :
        /\ i > Len(hist) - max_history_lines
        /\ LET x == Get(hist[i].analysis, "findings", JList(<<>>))
           IN  \/ ~Sliceable(x)
               \/ /\ x.t = "list"
                  /\ \E j \in DOMAIN x.v : j <= 3 /\ x.v[j].t # "str"

(***************************************************************************)
(* methodology_parser.py.                                                  *)
(***************************************************************************)
DefaultPhases == <<"reconnaissance", "scanning", "exploitation">>

\* The list comprehension of parse over the lines of the file.
RECURSIVE PhaseLines(_)
PhaseLines(lines) ==
    IF Len(lines) = 0 THEN <<>>
    ELSE (IF Strip(Head(lines)) # "" /\ ~StartsWith(Head(lines), "#")
          THEN <<Strip(Head(lines))>> ELSE <<>>) \o PhaseLines(Tail(lines))

\* parse raises: open or the read fails with another error than
\* FileNotFoundError, which is the only one parse catches.
ParseRaises(f) == f.exists /\ ~f.readable

\* MethodologyParser.parse() for the file f.
Parse(f) ==
    IF ~f.exists THEN DefaultPhases
    ELSE IF Len(PhaseLines(Split(f.text, "\n"))) = 0 THEN DefaultPhases
    ELSE PhaseLines(Split(f.text, "\n"))

(***************************************************************************)
(* The bounds of the model and the inputs the environment draws from.      *)
(***************************************************************************)
\* run's step budget (50 in main.py) and failure budget (5), scaled down.
max_steps == 3
max_failures == 2

\* The most commands the audit log holds when execute is driven alone.
MaxAudit == 2

Raise(msg) == [kind |-> "raise", msg |-> msg]
Content(text) == [kind |-> "content", text |-> text]
NoContent == [kind |-> "none"]

\* What the provider answers to a proposal request in a session.
LoopResponses ==
    { Raise("Connection error."),
      Content("{\"command\":\"nmap -sV t.com\",\"next_phase\":\"scanning\"}"),
      Content("{\"command\":\"mkfs.ext4 /dev/sdb\",\"next_phase\":\"\"}"),
      Content("{\"command\":\"rm -rf /tmp/x\",\"stop\":false}"),
      Content("{\"command\":\"\",\"stop\":true}"),
      Content("{\"command\":\"nmap -sV t.com\",\"stop\":true}") }

\* Answers that hold a JSON object without a command field: bare, in a
\* fenced block, and inside prose.
NoCommandResponses ==
    { Content("{\"next_phase\":\"scanning\",\"reasoning\":\"none\"}"),
      Content("{\"stop\":false}"),
      Content("{\"stop\":true}"),
      Content("Sure: {\"reasoning\":\"no\"} ok"),
      Content("^^^json\n{\"reasoning\":\"x\"}\n^^^") }

\* JSON object texts the provider emits bare and in a fenced block; the
\* command of the second ends with "}" and three backquotes.
ObjectTexts ==
    { "{\"command\":\"subfinder -d t.com\",\"stop\":false,\"reasoning\":\"go\"}",
      "{\"command\":\"echo }^^^\"}",
      "{\"command\":\"\",\"stop\":true}",
      "{\"stop\":false}" }

\* The text in a fenced code block.
Fenced(text) == Fence \o "json\n" \o text \o "\n" \o Fence

\* What the provider answers when generate_command is driven alone.
GenResponses ==
    LoopResponses \cup NoCommandResponses \cup
    { Content(t) : t \in ObjectTexts } \cup { Content(Fenced(t)) : t \in ObjectTexts } \cup
    { Raise("Request timed out."),
      NoContent,
      Content("{\"command\":\"subfinder -d t.com\",\"stop\":false,\"reasoning\":\"go\"}"),
      Content("{\"command\":\"\"}"),
      Content("{\"command\":\"\",\"stop\":false}"),
      Content("{\"command\":\"  \"}"),
      Content("{\"command\":5}"),
      Content("{\"command\":null,\"stop\":true}"),
      Content("{\"command\":\"\",\"stop\":1}"),
      Content("{\"command\":\"\",\"stop\":null}"),
      Content("null"),
      Content("[\"nmap\"]"),
      Content("\"nmap\""),
      Content(""),
      Content("I cannot help with that."),
      Content("Use {target} here."),
      Content("Sure: {\"command\":\"httpx -l h.txt\"} ok"),
      Content("^^^json\n{\"command\":\"nmap -p- t.com\"}\n^^^"),
      Content("^^^\n{\"command\":\"\",\"stop\":true}\n^^^"),
      Content("^^^json\n{\"command\":\"a\",}\n^^^ or {\"command\":\"b\"}") }

\* Analysis requests that fail: the transport raises, or the text is no JSON.
FailedAnalysisResponses ==
    { Raise("Connection error."),
      Content("No JSON here.") }

\* What the provider answers to an analysis request.
AnalysisResponses ==
    FailedAnalysisResponses \cup
    { Content("null"),
      Content("{\"findings\":[\"open port 80\"],\"vulnerabilities\":[\"xss\",\"sqli\",\"xss\"],"
              \o "\"next_actions\":[\"scan\"],\"risk_level\":\"high\",\"summary\":\"s\"}") }

\* How a subprocess ends: return code and the two streams.
LoopProcResults ==
    { [rc |-> 0, stdout |-> "http://a.t.com \nhttp://a.t.com\n", stderr |-> ""],
      [rc |-> 0, stdout |-> "", stderr |-> ""] }

ExecProcResults ==
    LoopProcResults \cup
    { [rc |-> 1, stdout |-> "", stderr |-> "nmap: permission denied\n"],
      [rc |-> 2, stdout |-> "partial\n", stderr |-> "bad flag\n"],
      [rc |-> 1, stdout |-> " \n", stderr |-> ""],
      [rc |-> 0, stdout |-> "", stderr |-> "warning\n"] }

\* str(e) of an exception of create_subprocess_shell or communicate.
SpawnErrors == { "[Errno 24] Too many open files" }

\* The commands execute is driven with alone: every dangerous pattern as it
\* is written, in upper case and inside a longer command, and safe commands.
RECURSIVE Upper(_)
Upper(s) ==
    IF s = "" THEN ""
    ELSE (LET c == SubSeq(s, 1, 1)
              k == IndexFrom("abcdefghijklmnopqrstuvwxyz", c, 1)
          IN  IF k = 0 THEN c ELSE SubSeq("ABCDEFGHIJKLMNOPQRSTUVWXYZ", k, k))
         \o Upper(From(s, 2))

ExecCommands ==
    { DangerousPatterns[i] : i \in DOMAIN DangerousPatterns }
    \cup { Upper(DangerousPatterns[i]) : i \in DOMAIN DangerousPatterns }
    \cup { "cd /tmp; " \o DangerousPatterns[i] \o "x" : i \in DOMAIN DangerousPatterns }
    \cup { "nmap -sV t.com", "curl https://t.com", "" }

\* The methodology file: absent, or its text.
AbsentFile == [exists |-> FALSE, readable |-> FALSE, text |-> ""]
PhasesFile == [exists |-> TRUE, readable |-> TRUE, text |-> "# phases\nrecon\n\nscan \n"]
CommentsFile == [exists |-> TRUE, readable |-> TRUE, text |-> "# no phases yet\n \n"]
UnreadableFile == [exists |-> TRUE, readable |-> FALSE, text |-> "recon\n"]
MethodologyFiles == { AbsentFile, PhasesFile, CommentsFile, UnreadableFile }

\* Config(): max_steps, max_consecutive_failures and command_timeout are read
\* from MAX_STEPS, MAX_FAILURES and COMMAND_TIMEOUT; unset, each is the
\* number run and CommandExecutor hard-code.
DefaultConfig ==
    [max_steps |-> max_steps, max_consecutive_failures |-> max_failures,
     command_timeout |-> timeout]
CustomConfig ==
    [max_steps |-> max_steps - 1, max_consecutive_failures |-> max_failures - 1,
     command_timeout |-> 30]

\* The environments a session starts in: the settings and the file.
Environments ==
    { [config |-> DefaultConfig, methodology |-> f] :
         f \in MethodologyFiles \ {CommentsFile} }
    \cup { [config |-> CustomConfig, methodology |-> CommentsFile] }

(***************************************************************************)
(* The state.                                                              *)
(***************************************************************************)
VARIABLES
    pc,                   \* where run (or the operation driven alone) stands
    session,              \* RUNNING, STOPPED_BY_AI, STOPPED_BY_LIMIT, CRASHED
    error,                \* the exception that left run, "" if none
    config,               \* self.config: the limits Config() read
    methodology,          \* the file MethodologyParser reads
    phases,               \* run's phases
    current_phase,        \* run's current_phase
    step,                 \* run's step
    consecutive_failures, \* run's consecutive_failures
    history,              \* self.history
    findings,             \* self.findings
    prompt,               \* the prompt _build_prompt built last
    result,               \* the Decision generate_command returned
    next_phase,           \* run's next_phase
    success,              \* run's success
    analysis,             \* run's analysis
    summaries,            \* what _display_summary has shown
    attempt,              \* generate_command's attempt (0 outside a call)
    ai_log,               \* the provider's answers in the current generate_command call
    an_log,               \* the provider's answers in the current analyze_output call
    command,              \* the command execute was called with
    output,               \* what execute returned
    executed_commands,    \* CommandExecutor.executed_commands
    proc,                 \* execute's subprocess: none, running, killed, exited
    spawned,              \* how many subprocesses were created
    exec_path             \* how the last execute call ended

runv == <<session, error, config, methodology, phases, current_phase, step,
          consecutive_failures, history, findings, prompt, next_phase, success,
          analysis, summaries, an_log>>
aiv == <<result, attempt, ai_log>>
exv == <<command, output, executed_commands, proc, spawned, exec_path>>
vars == <<pc, runv, aiv, exv>>

NoFindings == [vulnerabilities |-> <<>>, live_hosts |-> <<>>, subdomains |-> <<>>]
NoPrompt == [current_phase |-> JNone, step |-> 0, vulnerabilities |-> 0,
             live_hosts |-> 0, subdomains |-> 0]

\* The state after BugBountyAutomator() is constructed, control at pc0.
Constructed(pc0) ==
    /\ pc = pc0
    /\ session = "RUNNING"
    /\ error = ""
    /\ \E e \in Environments : config = e.config /\ methodology = e.methodology
    /\ phases = <<>>
    /\ current_phase = JNone
    /\ step = 0
    /\ consecutive_failures = 0
    /\ history = <<>>
    /\ findings = NoFindings
    /\ prompt = NoPrompt
    /\ result = JNone
    /\ next_phase = JNone
    /\ success = FALSE
    /\ analysis = JNone
    /\ summaries = <<>>
    /\ attempt = 0
    /\ ai_log = <<>>
    /\ an_log = <<>>
    /\ command = ""
    /\ output = ""
    /\ executed_commands = <<>>
    /\ proc = "none"
    /\ spawned = 0
    /\ exec_path = "none"

Init == Constructed("init")

(***************************************************************************)
(* run, up to the request for a Decision.                                  *)
(***************************************************************************)
\* _display_summary(total_steps): the totals it shows.
Summary(total_steps) ==
    [total_steps |-> total_steps,
     vulnerabilities |-> Len(findings.vulnerabilities),
     live_hosts |-> Len(findings.live_hosts),
     subdomains |-> Len(findings.subdomains)]

\* An exception leaves run; main() reports it as a fatal error.
Crash(e) ==
    /\ pc' = "crashed"
    /\ session' = "CRASHED"
    /\ error' = e

\* A loop test that forgets the step budget.
LoopTest_FailuresOnly(st, cf) == cf < max_failures

\* Line 55: the while test.
LoopTest(st, cf) == st < max_steps /\ cf < max_failures

\* Lines 45-47: the phases are read and the loop is entered.
RunStart ==
    /\ pc = "init"
    /\ IF ParseRaises(methodology)
       THEN Crash("PermissionError") /\ UNCHANGED <<phases, current_phase>>
       ELSE /\ phases' = Parse(methodology)
            /\ current_phase' = JStr(phases'[1])
            /\ pc' = "loop"
            /\ UNCHANGED <<session, error>>
    /\ UNCHANGED <<config, methodology, step, consecutive_failures,
                   history, findings, prompt, next_phase, success, analysis,
                   summaries, an_log, aiv, exv>>

\* Lines 55-71: the loop test holds; the step is counted, the header shown,
\* the prompt built and generate_command called.
Iterate ==
    /\ pc = "loop"
    /\ LoopTest(step, consecutive_failures)
    /\ step' = step + 1
    /\ IF current_phase.t # "str"
       THEN Crash("AttributeError") /\ UNCHANGED <<prompt, attempt>>
       ELSE IF BuildPromptRaises(history)
       THEN Crash("TypeError") /\ UNCHANGED <<prompt, attempt>>
       ELSE /\ prompt' = [current_phase |-> current_phase,
                          step |-> Len(history) + 1,
                          vulnerabilities |-> Len(findings.vulnerabilities),
                          live_hosts |-> Len(findings.live_hosts),
                          subdomains |-> Len(findings.subdomains)]
            /\ attempt' = 0
            /\ pc' = "generate"
            /\ UNCHANGED <<session, error>>
    /\ ai_log' = <<>>
    /\ UNCHANGED <<config, methodology, phases, current_phase, consecutive_failures,
                   history, findings, next_phase, success, analysis, summaries,
                   an_log, result, exv>>

\* Lines 55 and 134: the loop test fails; the summary is shown.
LoopExit ==
    /\ pc = "loop"
    /\ ~LoopTest(step, consecutive_failures)
    /\ summaries' = Append(summaries, Summary(step))
    /\ session' = "STOPPED_BY_LIMIT"
    /\ pc' = "done"
    /\ UNCHANGED <<error, config, methodology, phases, current_phase, step,
                   consecutive_failures, history, findings, prompt, next_phase,
                   success, analysis, an_log, aiv, exv>>

(***************************************************************************)
(* generate_command: one request to the provider and what the loop body    *)
(* does with the answer.                                                   *)
(***************************************************************************)
GenAttempt(resp) ==
    /\ pc = "generate"
    /\ ai_log' = Append(ai_log, resp)
    /\ IF GenerateStep(attempt, resp).done
       THEN /\ result' = GenerateStep(attempt, resp).result
            /\ pc' = "generated"
            /\ attempt' = 0
       ELSE /\ attempt' = attempt + 1
            /\ UNCHANGED <<result, pc>>
    /\ UNCHANGED <<runv, exv>>

(***************************************************************************)
(* run, from the Decision to the call of execute.                          *)
(***************************************************************************)
\* A stop test that looks at the command alone.
StopCondition_CommandOnly(r) == ~Truthy(Get(r, "command", JNone))

\* Line 74: not result.get("command") or result.get("stop").
StopCondition(r) ==
    ~Truthy(Get(r, "command", JNone)) \/ Truthy(Get(r, "stop", JNone))

\* Lines 74-76 and 134: _handle_stop, break, and the summary.
Stop ==
    /\ pc = "generated"
    /\ StopCondition(result)
    /\ summaries' = Append(summaries, Summary(step))
    /\ session' = "STOPPED_BY_AI"
    /\ pc' = "done"
    /\ UNCHANGED <<error, config, methodology, phases, current_phase, step,
                   consecutive_failures, history, findings, prompt, next_phase,
                   success, analysis, an_log, aiv, exv>>

\* Lines 78-92: the command is stripped and handed to execute.
Dispatch ==
    /\ pc = "generated"
    /\ ~StopCondition(result)
    /\ IF result.v["command"].t # "str"
       THEN Crash("AttributeError") /\ UNCHANGED <<command, next_phase>>
       ELSE /\ command' = Strip(result.v["command"].v)
            /\ next_phase' = Get(result, "next_phase", current_phase)
            /\ pc' = "execute"
            /\ UNCHANGED <<session, error>>
    /\ ai_log' = <<>>
    /\ UNCHANGED <<config, methodology, phases, current_phase, step, consecutive_failures,
                   history, findings, prompt, success, analysis, summaries, an_log,
                   result, attempt, output, executed_commands, proc, spawned,
                   exec_path>>

(***************************************************************************)
(* execute.                                                                *)
(***************************************************************************)
\* Lines 17-21: the command is refused.
ExecBlocked ==
    /\ pc = "execute"
    /\ ~IsSafeCommand(command)
    /\ output' = BlockedMsg(command)
    /\ exec_path' = "blocked"
    /\ pc' = "executed"
    /\ UNCHANGED <<runv, aiv, command, executed_commands, proc, spawned>>

\* Lines 23-41: the command is recorded and its subprocess created.
ExecSpawn ==
    /\ pc = "execute"
    /\ IsSafeCommand(command)
    /\ executed_commands' = Append(executed_commands, command)
    /\ proc' = "running"
    /\ spawned' = spawned + 1
    /\ pc' = "communicate"
    /\ UNCHANGED <<runv, aiv, command, output, exec_path>>

\* A failed creation that leaves no record of the command.
ExecSpawnRaises_Unrecorded(e) ==
    /\ pc = "execute"
    /\ IsSafeCommand(command)
    /\ output' = ExecErrorMsg(e)
    /\ exec_path' = "error"
    /\ pc' = "executed"
    /\ UNCHANGED <<runv, aiv, command, executed_commands, proc, spawned>>

\* Lines 23-41 and 72-75: the command is recorded and create_subprocess_shell
\* raises e.
ExecSpawnRaises(e) ==
    /\ pc = "execute"
    /\ IsSafeCommand(command)
    /\ executed_commands' = Append(executed_commands, command)
    /\ output' = ExecErrorMsg(e)
    /\ exec_path' = "error"
    /\ pc' = "executed"
    /\ UNCHANGED <<runv, aiv, command, proc, spawned>>

\* Lines 44-70: communicate returns before the timeout.
ProcExits(r) ==
    /\ pc = "communicate"
    /\ proc' = "exited"
    /\ output' = ProcessOutput(r.rc, r.stdout, r.stderr)
    /\ exec_path' = "exited"
    /\ pc' = "executed"
    /\ UNCHANGED <<runv, aiv, command, executed_commands, spawned>>

\* Lines 23-48 and 72-75: communicate raises e; the subprocess is left as it is.
CommunicateRaises(e) ==
    /\ pc = "communicate"
    /\ output' = ExecErrorMsg(e)
    /\ exec_path' = "error"
    /\ pc' = "executed"
    /\ UNCHANGED <<runv, aiv, command, executed_commands, proc, spawned>>

\* A timeout that returns the message without waiting for the subprocess.
ProcTimesOut_NoWait ==
    /\ pc = "communicate"
    /\ proc' = "killed"
    /\ output' = TimedOutMsg
    /\ exec_path' = "timeout"
    /\ pc' = "executed"
    /\ UNCHANGED <<runv, aiv, command, executed_commands, spawned>>

\* Lines 49-51: the timeout passes; the subprocess is killed and awaited.
ProcTimesOut ==
    /\ pc = "communicate"
    /\ proc' = "killed"
    /\ pc' = "reaping"
    /\ UNCHANGED <<runv, aiv, command, output, executed_commands, spawned, exec_path>>

\* Lines 51-54: process.wait() returns; the timed-out message is returned.
ProcReaped ==
    /\ pc = "reaping"
    /\ proc' = "exited"
    /\ output' = TimedOutMsg
    /\ exec_path' = "timeout"
    /\ pc' = "executed"
    /\ UNCHANGED <<runv, aiv, command, executed_commands, spawned>>

(***************************************************************************)
(* run, from the output to the end of the step.                            *)
(***************************************************************************)
\* A counter that a success does not reset.
NextFailures_NoReset(cf, ok) == IF ok THEN cf ELSE cf + 1

\* Lines 97-101: the consecutive-failure counter after a step.
NextFailures(cf, ok) == IF ok THEN 0 ELSE cf + 1

\* Lines 94-105: the output is classified, the failure counter updated and
\* analyze_output called.
Classify ==
    /\ pc = "executed"
    /\ success' = CheckCommandSuccess(output)
    /\ consecutive_failures' = NextFailures(consecutive_failures, success')
    /\ proc' = "none"
    /\ pc' = "analyze"
    /\ UNCHANGED <<session, error, config, methodology, phases, current_phase, step,
                   history, findings, prompt, next_phase, analysis, summaries,
                   an_log, aiv, command, output, executed_commands, spawned,
                   exec_path>>

\* A history entry numbered from 0.
HistoryEntry_ZeroBased(an) ==
    [step |-> Len(history), phase |-> current_phase, command |-> command,
     output |-> output, analysis |-> an, success |-> success]

\* Lines 114-122: the history entry of the step, with the Analysis an.
HistoryEntry(an) ==
    [step |-> step, phase |-> current_phase, command |-> command,
     output |-> output, analysis |-> an, success |-> success]

\* Lines 105-128: analyze_output answers; the analysis is shown and merged,
\* the history entry appended and the phase advanced.
Analyze(resp) ==
    /\ pc = "analyze"
    /\ an_log' = Append(an_log, resp)
    /\ analysis' = AnalyzeOutput(resp)
    /\ IF DisplayAnalysisRaises(analysis')
       THEN Crash("AttributeError") /\ UNCHANGED <<findings, history, current_phase>>
       ELSE IF UpdateFindingsRaises(analysis')
       THEN Crash("TypeError") /\ UNCHANGED <<findings, history, current_phase>>
       ELSE /\ findings' = UpdateFindings(findings, analysis', output)
            /\ history' = Append(history, HistoryEntry(analysis'))
            /\ current_phase' = next_phase
            /\ pc' = "sleep"
            /\ UNCHANGED <<session, error>>
    /\ UNCHANGED <<config, methodology, phases, step, consecutive_failures, prompt,
                   next_phase, success, summaries, aiv, exv>>

\* Line 131: the pause between two steps is over.
Sleep ==
    /\ pc = "sleep"
    /\ an_log' = <<>>
    /\ pc' = "loop"
    /\ UNCHANGED <<session, error, config, methodology, phases, current_phase, step,
                   consecutive_failures, history, findings, prompt, next_phase,
                   success, analysis, summaries, aiv, exv>>

(***************************************************************************)
(* The session.                                                            *)
(***************************************************************************)
Next ==
    \/ RunStart
    \/ Iterate
    \/ LoopExit
    \/ \E resp \in LoopResponses : GenAttempt(resp)
    \/ Stop
    \/ Dispatch
    \/ ExecBlocked
    \/ ExecSpawn
    \/ \E e \in SpawnErrors : ExecSpawnRaises(e)
    \/ \E r \in LoopProcResults : ProcExits(r)
    \/ \E e \in SpawnErrors : CommunicateRaises(e)
    \/ ProcTimesOut
    \/ ProcReaped
    \/ Classify
    \/ \E resp \in AnalysisResponses : Analyze(resp)
    \/ Sleep

Spec == Init /\ [][Next]_vars

(***************************************************************************)
(* generate_command driven alone: one call, from its first request.        *)
(***************************************************************************)
InitGen ==
    /\ Constructed("generate")
    /\ config = DefaultConfig /\ methodology = AbsentFile

NextGen == \E resp \in GenResponses : GenAttempt(resp)

SpecGen == InitGen /\ [][NextGen]_vars

(***************************************************************************)
(* One iteration from the request for a Decision to the hand-over of the   *)
(* command: generate_command with every answer, then run's stop test.      *)
(***************************************************************************)
NextDecide ==
    \/ \E resp \in GenResponses : GenAttempt(resp)
    \/ Stop
    \/ Dispatch

SpecDecide == InitGen /\ [][NextDecide]_vars

(***************************************************************************)
(* execute driven alone: a sequence of calls.                              *)
(***************************************************************************)
\* execute(c) is called.
ExecCall(c) ==
    /\ pc = "idle"
    /\ Len(executed_commands) < MaxAudit
    /\ command' = c
    /\ pc' = "execute"
    /\ UNCHANGED <<runv, aiv, output, executed_commands, proc, spawned, exec_path>>

\* execute has returned; the caller goes on.
ExecReturn ==
    /\ pc = "executed"
    /\ proc' = "none"
    /\ pc' = "idle"
    /\ UNCHANGED <<runv, aiv, command, output, executed_commands, spawned, exec_path>>

InitExec ==
    /\ Constructed("idle")
    /\ config = DefaultConfig /\ methodology = AbsentFile

NextExec ==
    \/ \E c \in ExecCommands : ExecCall(c)
    \/ ExecBlocked
    \/ ExecSpawn
    \/ \E e \in SpawnErrors : ExecSpawnRaises(e)
    \/ \E r \in ExecProcResults : ProcExits(r)
    \/ \E e \in SpawnErrors : CommunicateRaises(e)
    \/ ProcTimesOut
    \/ ProcReaped
    \/ ExecReturn

SpecExec == InitExec /\ [][NextExec]_vars

(***************************************************************************)
(* The claims.                                                             *)
(***************************************************************************)
Finished == pc \in {"done", "crashed"}

\* C1: whatever the AI decides and however the commands end, run starts at
\* most max_steps iterations: step counts them, goes up by one at the loop
\* head only and never passes max_steps, and from the loop head with the
\* budget used the only step is the one that leaves the loop.
C1_LoopLeftWithinMaxSteps ==
    [][/\ step' <= max_steps
       /\ Len(history') <= step'
       /\ step' # step => (pc = "loop" /\ step' = step + 1)
       /\ (pc = "loop" /\ step >= max_steps)
             => (pc' = "done" /\ session' = "STOPPED_BY_LIMIT")]_vars

\* A session the AI never stops and the step budget ends.
C1_Witness ==
    /\ pc = "done"
    /\ session = "STOPPED_BY_LIMIT"
    /\ step = max_steps
    /\ consecutive_failures < max_failures

\* The number of trailing entries of the history whose success flag is false.
RECURSIVE TrailingFailures(_)
TrailingFailures(h) ==
    IF Len(h) = 0 \/ h[Len(h)].success THEN 0
    ELSE 1 + TrailingFailures(SubSeq(h, 1, Len(h) - 1))

\* C2: outside the middle of a step the consecutive-failure counter equals
\* the number of trailing failed entries of the history (0 after a success,
\* one more after a failure); and once it has reached max_failures no
\* request for a Decision is made and no command is executed any more: the
\* step is completed and the session ends.
C2_FailureCounter ==
    /\ [](pc \notin {"analyze", "crashed"}
            => consecutive_failures = TrailingFailures(history))
    /\ [][consecutive_failures >= max_failures
            => /\ ai_log' = ai_log
               /\ executed_commands' = executed_commands
               /\ spawned' = spawned
               /\ output' = output
               /\ pc' \in {"sleep", "loop", "done", "crashed"}
               /\ (pc = "loop" => session' = "STOPPED_BY_LIMIT")]_vars

\* A session the failure budget ends before the step budget, after a success
\* had reset the counter.
C2_Witness ==
    /\ pc = "done"
    /\ session = "STOPPED_BY_LIMIT"
    /\ consecutive_failures = max_failures
    /\ step < max_steps

\* The Decision invariant: a command field, and a non-empty string in it
\* unless stop is set (stop read as the code reads it, by its truth value).
SatisfiesDecisionInvariant(d) ==
    /\ d.t = "dict"
    /\ "command" \in DOMAIN d.v
    /\ \/ ("stop" \in DOMAIN d.v /\ Truthy(d.v["stop"]))
       \/ (d.v["command"].t = "str" /\ d.v["command"].v # "")

\* An error Decision: command "", stop true and an error message.
IsErrorDecision(d) ==
    /\ d.t = "dict"
    /\ {"command", "stop", "error"} \subseteq DOMAIN d.v
    /\ d.v["command"] = JStr("")
    /\ d.v["stop"] = JBool(TRUE)
    /\ d.v["error"].t = "str" /\ d.v["error"].v # ""

AllRequestsRaised ==
    /\ pc = "generated"
    /\ Len(ai_log) = retry_count
    /\ \A i \in DOMAIN ai_log : ai_log[i].kind = "raise"

MatchesDenyList(cmd) ==
    \E i \in DOMAIN DangerousPatterns :
        Contains(Lower(cmd), Lower(DangerousPatterns[i]))

\* C5: while execute works on a command that holds a deny-list pattern, in
\* whatever case, no subprocess exists and none is being created, the audit
\* log does not hold the command, and what execute returns holds "blocked".
C5_DenyListBlocks ==
    (pc \in {"execute", "communicate", "reaping", "executed"} /\ MatchesDenyList(command))
        => /\ pc \in {"execute", "executed"}
           /\ proc = "none"
           /\ ~InList(executed_commands, command)
           /\ pc = "executed" => Contains(output, "blocked") /\ exec_path = "blocked"

\* execute has returned for a disk wipe written in upper case, refused after
\* an earlier command had been run.
C5_Witness ==
    /\ pc = "executed"
    /\ command = "DD IF=/DEV/ZERO"
    /\ output = "Command blocked for safety: DD IF=/DEV/ZERO"
    /\ executed_commands = <<"nmap -sV t.com">>
    /\ spawned = 1

\* The Decision has stop = true or an empty command.
DecisionStops(d) ==
    \/ ("stop" \in DOMAIN d.v /\ d.v["stop"] = JBool(TRUE))
    \/ ("command" \in DOMAIN d.v /\ d.v["command"] = JStr(""))

\* C6: from a Decision with stop = true or an empty command the only step is
\* the one to STOPPED_BY_AI: it hands no command to execute, calls no
\* analysis, appends no history entry and leaves the findings and the audit
\* log as they are; and no step follows it.
C6_StopChangesNothingElse ==
    [][/\ (pc = "generated" /\ DecisionStops(result))
            => /\ pc' = "done"
               /\ session' = "STOPPED_BY_AI"
               /\ command' = command /\ output' = output
               /\ spawned' = spawned
               /\ executed_commands' = executed_commands
               /\ analysis' = analysis /\ an_log' = an_log
               /\ history' = history
               /\ findings' = findings
               /\ ai_log' = ai_log
       /\ session # "STOPPED_BY_AI"]_vars

\* The AI stopped a session with a non-empty command in its Decision, after
\* a step had been run.
C6_Witness ==
    /\ session = "STOPPED_BY_AI"
    /\ Len(history) = 1
    /\ result.v["command"] = JStr("nmap -sV t.com")
    /\ result.v["stop"] = JBool(TRUE)
    /\ Len(executed_commands) = 1

\* An Analysis: a record with the five fields, risk_level one of the five.
IsAnalysis(a) ==
    /\ a.t = "dict"
    /\ {"findings", "vulnerabilities", "next_actions", "risk_level", "summary"}
          \subseteq DOMAIN a.v
    /\ a.v["risk_level"] \in {JStr("low"), JStr("medium"), JStr("high"),
                              JStr("critical"), JStr("unknown")}

\* C7 as stated: whatever the provider answers to the analysis request,
\* what analyze_output hands to run is an Analysis, and the step goes on to
\* the findings merge and the history append.
C7_AnalysisNeverAbsent ==
    Len(an_log) > 0 => IsAnalysis(analysis) /\ pc = "sleep" /\ Len(history) = step

\* The fixed default Analysis.
FixedDefaultAnalysis ==
    JDict([findings |-> JList(<<>>), vulnerabilities |-> JList(<<>>),
           next_actions |-> JList(<<JStr("Continue with next phase")>>),
           risk_level |-> JStr("unknown"), summary |-> JStr("Analysis unavailable")])

\* C8: when the analysis request fails (the transport raises, or the text is
\* not JSON), analyze_output has made that one request, returns exactly the
\* fixed default Analysis, and the step is completed with it.
C8_FailedAnalysisGivesDefault ==
    (Len(an_log) > 0 /\ an_log[1] \in FailedAnalysisResponses)
        => /\ Len(an_log) = 1
           /\ analysis = FixedDefaultAnalysis
           /\ pc = "sleep"
           /\ history[Len(history)].analysis = FixedDefaultAnalysis

\* A step completed with the default Analysis after a text that is no JSON.
C8_Witness ==
    /\ pc = "sleep"
    /\ an_log = <<Content("No JSON here.")>>
    /\ analysis = FixedDefaultAnalysis
    /\ Len(history) = 2

\* C9 as stated: a step whose command timed out is a failed step: its
\* success flag is false and the consecutive-failure counter was incremented.
C9_TimeoutIsFailedStep ==
    (pc = "analyze" /\ exec_path = "timeout")
        => ~success /\ consecutive_failures > 0

\* C10 as stated: a step whose command the safety filter refused is a failed
\* step: its success flag is false and the consecutive-failure counter was
\* incremented.
C10_BlockedIsFailedStep ==
    (pc = "analyze" /\ exec_path = "blocked")
        => ~success /\ consecutive_failures > 0

\* The phase a completed step leaves: the Decision's next_phase when the
\* field is present and not the empty string, else the phase of the step.
PhaseAfter(d, phase) ==
    IF "next_phase" \in DOMAIN d.v /\ d.v["next_phase"] # JStr("")
    THEN d.v["next_phase"]
    ELSE phase

\* C11 as stated: after a completed step current_phase is the Decision's
\* next_phase when that is present and non-empty and the phase of the step
\* otherwise, and current_phase is never the empty string.
C11_PhaseAdvance ==
    /\ pc = "sleep" => current_phase = PhaseAfter(result, history[Len(history)].phase)
    /\ current_phase # JStr("")

\* C12 as stated: the limits in force are the configured ones: the loop
\* never counts more steps or more consecutive failures than Config allows
\* and ends at the limit exactly when one of them is reached, and a command
\* is timed out after Config.command_timeout seconds.
C12_ConfiguredLimitsInForce ==
    /\ step <= config.max_steps
    /\ consecutive_failures <= config.max_consecutive_failures
    /\ session = "STOPPED_BY_LIMIT"
          => \/ step = config.max_steps
             \/ consecutive_failures = config.max_consecutive_failures
    /\ (pc = "executed" /\ exec_path = "timeout")
          => output = "Command timed out after "
                        \o IntToStr(config.command_timeout) \o " seconds"

\* No element occurs twice in the list.
NoDuplicates(l) == \A i, j \in DOMAIN l : l[i] = l[j] => i = j

\* C13 as stated: after any sequence of _update_findings calls the live-host
\* collection and the subdomain collection each hold no string twice.
C13_HostsAndSubdomainsDistinct ==
    /\ NoDuplicates(findings.live_hosts)
    /\ NoDuplicates(findings.subdomains)

\* The list a is the beginning of the list b.
IsPrefix(a, b) == Len(a) <= Len(b) /\ SubSeq(b, 1, Len(a)) = a

\* The index of the first occurrence of x in the list l.
FirstIndex(l, x) == CHOOSE i \in DOMAIN l : l[i] = x /\ \A j \in 1..(i - 1) : l[j] # x

\* The list new is the list old followed by the items of merged that old
\* lacks, each once, in the order of their first occurrence in merged.
IsMergeOf(new, old, merged) ==
    /\ IsPrefix(old, new)
    /\ NoDuplicates(new)
    /\ \A i \in DOMAIN merged : InList(new, merged[i])
    /\ \A i \in (Len(old) + 1)..Len(new) : InList(merged, new[i])
    /\ \A i, j \in (Len(old) + 1)..Len(new) :
          i < j => FirstIndex(merged, new[i]) < FirstIndex(merged, new[j])

\* C14: the vulnerability collection holds no string twice; no step of the
\* session removes or reorders an element of it; and the merge of a step's
\* Analysis leaves the strings already present where they are and appends
\* the new ones, each once, in the order the Analysis lists them.
C14_VulnerabilitiesMerge ==
    /\ [](NoDuplicates(findings.vulnerabilities))
    /\ [][/\ IsPrefix(findings.vulnerabilities, findings'.vulnerabilities)
          /\ (pc = "analyze" /\ pc' = "sleep"
                /\ Get(analysis', "vulnerabilities", JList(<<>>)).t = "list")
                => IsMergeOf(findings'.vulnerabilities, findings.vulnerabilities,
                             Get(analysis', "vulnerabilities", JList(<<>>)).v)]_vars

\* Two steps merged the Analysis that lists xss, sqli, xss: the first added
\* two strings in that order, the second none.
C14_Witness ==
    /\ Len(history) = 2
    /\ \A i \in 1..2 :
          Get(history[i].analysis, "vulnerabilities", JList(<<>>))
             = JList(<<JStr("xss"), JStr("sqli"), JStr("xss")>>)
    /\ findings.vulnerabilities = <<JStr("xss"), JStr("sqli")>>

\* The output is the marker execute puts in the place of an empty output.
IsNoOutputMarker(out) ==
    \E n \in 0..9 : out = "[No output. Exit code: " \o IntToStr(n) \o "]"

\* C15: when the subprocess ends with return code 0 and both streams empty,
\* execute returns exactly "[No output. Exit code: 0]"; and every marker
\* "[No output. Exit code: N]" execute returns is classified as a failure
\* by _check_command_success.
C15_NoOutputMarker ==
    /\ [][\A r \in ExecProcResults :
             (ProcExits(r) /\ r.rc = 0 /\ r.stdout = "" /\ r.stderr = "")
                => (pc' = "executed" /\ output' = "[No output. Exit code: 0]")]_vars
    /\ []((pc = "executed" /\ IsNoOutputMarker(output)) => ~CheckCommandSuccess(output))

\* execute has returned the marker for return code 0 for the second command
\* it ran.
C15_Witness ==
    /\ pc = "executed"
    /\ exec_path = "exited"
    /\ output = "[No output. Exit code: 0]"
    /\ Len(executed_commands) = 2

\* C16: after the timeout execute has killed its subprocess and is waiting
\* for it, and when it has returned for a timed-out command the subprocess
\* has exited and the value returned holds "timed out".
C16_TimedOutProcessReaped ==
    /\ pc = "reaping" => proc = "killed"
    /\ (pc = "executed" /\ exec_path = "timeout")
          => /\ proc = "exited"
             /\ Contains(output, "timed out")

\* execute has returned for a command that timed out.
C16_Witness ==
    /\ pc = "executed"
    /\ exec_path = "timeout"
    /\ proc = "exited"
    /\ command = "curl https://t.com"
    /\ output = "Command timed out after 600 seconds"

\* C17: an exception of create_subprocess_shell or of communicate ends
\* execute with a result that begins "Command execution error: ", and the
\* step that got it is a failed step: its success flag is false, the
\* consecutive-failure counter was incremented and its history entry says so.
C17_ExecutionErrorIsFailedStep ==
    /\ (pc \in {"executed", "analyze", "sleep"} /\ exec_path = "error")
          => StartsWith(output, "Command execution error: ")
    /\ (pc \in {"analyze", "sleep"} /\ exec_path = "error")
          => ~success /\ consecutive_failures > 0
    /\ (pc = "sleep" /\ exec_path = "error")
          => /\ ~history[Len(history)].success
             /\ history[Len(history)].output = output

\* The failure budget is used up by a step whose subprocess could not be
\* created after a step whose communicate raised.
C17_Witness ==
    /\ pc = "analyze"
    /\ exec_path = "error"
    /\ proc = "none"
    /\ spawned = 1
    /\ Len(executed_commands) = 2
    /\ ~success
    /\ consecutive_failures = 2

\* The text has no phase line: every line is blank or starts with "#".
NoPhaseLine(text) ==
    \A i \in DOMAIN Split(text, "\n") :
        LET line == Split(text, "\n")[i]
        IN  Strip(line) = "" \/ StartsWith(line, "#")

\* C19 as stated: parse always returns a non-empty sequence of phase names,
\* and when the file is absent, when reading it fails for another reason or
\* when it has no phase line the sequence is exactly reconnaissance,
\* scanning, exploitation.
C19_ParseAlwaysReturnsPhases ==
    pc # "init" =>
        /\ Len(phases) > 0
        /\ (\/ ~methodology.exists
            \/ ~methodology.readable
            \/ NoPhaseLine(methodology.text))
              => phases = <<"reconnaissance", "scanning", "exploitation">>

\* What the call has done with its last answer: returned result, or gone on
\* to the next request.
LastStep ==
    IF pc = "generated" THEN [done |-> TRUE, result |-> result]
    ELSE [done |-> FALSE, result |-> JNone]

\* C18 as stated: for a JSON object text, the attempt of generate_command
\* that got the text bare ends as the same attempt does when it gets the
\* text in a fenced code block: both return, and return equal Decisions, or
\* both go on to the next request.
C18_BareEqualsFenced ==
    \A t \in ObjectTexts :
        (Len(ai_log) > 0 /\ ai_log[Len(ai_log)] = Content(t))
            => GenerateStep(Len(ai_log) - 1, Content(Fenced(t))) = LastStep

\* The summary shows the sizes of the three collections of the findings.
SummaryCountsMatch(sm) ==
    /\ sm.vulnerabilities = Len(findings.vulnerabilities)
    /\ sm.live_hosts = Len(findings.live_hosts)
    /\ sm.subdomains = Len(findings.subdomains)

\* C20 as stated: a session that has ended, stopped by the AI or by a limit,
\* has shown the summary exactly once, and the summary's step total is the
\* number of history entries and its counts are the sizes of the findings.
C20_SummaryMatchesSession ==
    /\ Len(summaries) <= 1
    /\ session \in {"STOPPED_BY_AI", "STOPPED_BY_LIMIT"} =>
          /\ pc = "done"
          /\ Len(summaries) = 1
          /\ summaries[1].total_steps = Len(history)
          /\ SummaryCountsMatch(summaries[1])

\* The fenced-code-block strategy fails on the text: no fenced block, a
\* block whose content is not valid JSON, or a parsed value that fails the
\* validation.
FencedStrategyFails(content) ==
    LET m == FenceSearch(content, 1)
    IN  \/ ~m.found
        \/ ~JsonLoads(m.group).ok
        \/ ~ValidateResponse(JsonLoads(m.group).val)

\* The greedy strategy yields a valid Decision on the text.
GreedyStrategyYields(content) ==
    LET m == BraceSearch(content)
    IN  m.found /\ JsonLoads(m.group).ok /\ ValidateResponse(JsonLoads(m.group).val)

\* C21 as stated: when the direct parse of an answer fails and the fenced
\* strategy fails on it, the greedy strategy is still tried in that attempt:
\* if it yields a valid Decision, the call returns that Decision on this
\* answer.
C21_GreedyTriedAfterFenced ==
    (Len(ai_log) > 0 /\ ai_log[Len(ai_log)].kind = "content") =>
        LET content == Strip(ai_log[Len(ai_log)].text)
        IN  (/\ ~JsonLoads(content).ok
             /\ FencedStrategyFails(content)
             /\ GreedyStrategyYields(content))
                => /\ pc = "generated"
                   /\ result = JsonLoads(BraceSearch(content).group).val

\* The attempt that got the answer produced a valid Decision.
AttemptSucceeds(resp) == AttemptOutcome(resp).kind = "return"

\* C22: one call of generate_command makes at most retry_count requests;
\* every request but the last of the call followed an attempt that failed;
\* while the call goes on every attempt so far has failed; and when it has
\* returned, either its last attempt produced the valid Decision it returns,
\* or retry_count requests have all failed and it returns an error Decision.
C22_RetryDiscipline ==
    /\ Len(ai_log) <= retry_count
    /\ \A i \in 1..(Len(ai_log) - 1) : ~AttemptSucceeds(ai_log[i])
    /\ pc = "generate" =>
          /\ Len(ai_log) < retry_count
          /\ \A i \in DOMAIN ai_log : ~AttemptSucceeds(ai_log[i])
    /\ pc = "generated" =>
          /\ Len(ai_log) >= 1
          /\ \/ /\ AttemptSucceeds(ai_log[Len(ai_log)])
                /\ result = AttemptOutcome(ai_log[Len(ai_log)]).result
             \/ /\ Len(ai_log) = retry_count
                /\ \A i \in DOMAIN ai_log : ~AttemptSucceeds(ai_log[i])
                /\ IsErrorDecision(result)

\* A call whose first request raised, whose second answer was prose and
\* whose third answer held a valid Decision inside prose.
C22_Witness ==
    /\ pc = "generated"
    /\ ai_log = <<Raise("Request timed out."),
                  Content("I cannot help with that."),
                  Content("Sure: {\"command\":\"httpx -l h.txt\"} ok")>>
    /\ result = JDict([command |-> JStr("httpx -l h.txt")])

\* C23: the audit log only grows at its end; the step of execute that
\* follows the safety check appends the command when it passed the filter and
\* leaves the log alone when it was blocked; nothing else changes the log; a
\* subprocess is created only for the command recorded last; and whenever
\* execute has returned otherwise than blocked (also after a failed creation
\* or a timeout) the last record is its command.
C23_AuditLog ==
    /\ [][/\ IsPrefix(executed_commands, executed_commands')
          /\ pc = "execute" =>
                executed_commands' = IF MatchesDenyList(command)
                                     THEN executed_commands
                                     ELSE Append(executed_commands, command)
          /\ pc # "execute" => executed_commands' = executed_commands
          /\ spawned' # spawned =>
                /\ Len(executed_commands') > 0
                /\ executed_commands'[Len(executed_commands')] = command]_vars
    /\ []((pc \in {"communicate", "reaping"}
             \/ (pc = "executed" /\ exec_path \in {"exited", "timeout", "error"}))
            => /\ Len(executed_commands) > 0
               /\ executed_commands[Len(executed_commands)] = command)

\* The log holds two commands: the first timed out, the subprocess of the
\* second could not be created.
C23_Witness ==
    /\ pc = "executed"
    /\ exec_path = "error"
    /\ spawned = 1
    /\ executed_commands = <<"curl https://t.com", "nmap -sV t.com">>

C25_NoEmptyCommandExecuted ==
    pc = "execute" => command # ""

=============================================================================
